---- MODULE Spec2Model ----
(***************************************************************************)
(* A model of node/narwhal/src/committee.rs: the Committee handle with its *)
(* stake ledger (committee), round counter (round), peer directory         *)
(* (peer_addresses, address_peers) and write-once primary sender, shared   *)
(* by several threads.  Every RwLock critical section is one atomic step;  *)
(* a method that takes two critical sections is two steps, so other        *)
(* threads may run between them.                                           *)
(***************************************************************************)
EXTENDS Integers, Sequences, FiniteSets, TLC

(* ------------------------------ bounds -------------------------------- *)

\* The unsigned width of the model is 2 * HalfWidth bits (u64 is 2 * 32).
HalfWidth == 2
\* Number of validator identities (Address<N> values).
NIdents == 2
\* Number of peer socket addresses.
NAddrs == 2
\* Number of threads sharing the handle.
NThreads == 2

\* Number of distinct primary senders a caller may install.
NSenders == 2
\* Number of increment_round calls followed.
MaxAdvances == 3

Width == 2 * HalfWidth
Modulus == 2 ^ Width
\* u64::MAX at the model's width.
MAX == Modulus - 1

Idents == 1 .. NIdents
PeerIps == 1 .. NAddrs
Threads == 1 .. NThreads
Senders == 1 .. NSenders

\* Stake arguments of the sequential driver: the first identity ranges over
\* the whole unsigned range, so that every total is reached; the others take
\* the boundary values.
BoundaryStakes == {0, 1, (MAX \div 2) + 1, MAX}
StakeInputs(address) == IF address = 1 THEN 0 .. MAX ELSE BoundaryStakes
\* Stake arguments of the concurrent callers.
RaceStakes == {1, MAX}
\* Starting rounds handed to Committee::new.
StartRounds == {0, MAX - 1, MAX}

(* --------------------------- return values ---------------------------- *)

DuplicateMember == "Validator already in committee"
StakeOverflow == "Failed to calculate total stake - overflow detected"
SenderNotSet == "Primary sender not set"
SenderAlreadySet == "Primary sender already set"

Pending == [tag |-> "Pending", err |-> "", val |-> 0]
Unit == [tag |-> "Unit", err |-> "", val |-> 0]
Ok(v) == [tag |-> "Ok", err |-> "", val |-> v]
Err(e) == [tag |-> "Err", err |-> e, val |-> 0]
Val(v) == [tag |-> "Val", err |-> "", val |-> v]
BoolVal(b) == [tag |-> "Bool", err |-> "", val |-> IF b THEN 1 ELSE 0]
Some(v) == [tag |-> "Some", err |-> "", val |-> v]
None == [tag |-> "None", err |-> "", val |-> 0]
Panic(e) == [tag |-> "Panic", err |-> e, val |-> 0]

(* ------------------------- integer arithmetic ------------------------- *)

WrappingAdd(a, b) == (a + b) % Modulus
\* Faulty variant: an addition that wraps instead of reporting the overflow.
CheckedAddWraps(a, b) == Some(WrappingAdd(a, b))
CheckedAdd(a, b) == IF a + b > MAX THEN None ELSE Some(a + b)
\* Faulty variant: an addition that wraps instead of saturating.
SaturatingAddWraps(a, b) == WrappingAdd(a, b)
SaturatingAdd(a, b) == IF a + b > MAX THEN MAX ELSE a + b
SaturatingMul(a, b) == IF a * b > MAX THEN MAX ELSE a * b

(* ------------------------------ HashMap ------------------------------- *)

EmptyMap == [k \in {} |-> 0]
\* Faulty variant: the map is assigned the new entry instead of receiving it.
MapInsertAssigns(m, k, v) == [x \in {k} |-> v]
MapInsert(m, k, v) == [x \in (DOMAIN m) \cup {k} |-> IF x = k THEN v ELSE m[x]]
MapRemove(m, k) == [x \in (DOMAIN m) \ {k} |-> m[x]]
MapGet(m, k) == IF k \in DOMAIN m THEN Some(m[k]) ELSE None

\* The iteration orders HashMap::values() may produce: every permutation of
\* the keys.
Orders(m) ==
    LET n == Cardinality(DOMAIN m)
    IN  {o \in [1 .. n -> DOMAIN m] : \A i, j \in 1 .. n : i # j => o[i] # o[j]}

(* ------------------------------- state -------------------------------- *)

VARIABLES
    committee,        \* map of address to stake
    round,            \* the current round number
    peer_addresses,   \* map of peer IP to address
    address_peers,    \* map of address to peer IP
    primary_sender,   \* the OnceCell: None or Some(sender)
    thr,              \* per thread: position, arguments and last return value
    calls,            \* history: per address, add_validator calls made (2 = two or more)
    arg,              \* history: per address, the stake of the first add_validator call
    raced,            \* history: two add_validator calls were in flight at once
    start,            \* history: the round Committee::new was given
    advances          \* history: increment_round calls made

vars == <<committee, round, peer_addresses, address_peers, primary_sender,
          thr, calls, arg, raced, start, advances>>
history == <<calls, arg, raced, start, advances>>

IdleThread == [pc |-> "idle", op |-> "none", address |-> 0, stake |-> 0,
               peer_ip |-> 0, sender |-> 0, power |-> 0, todo |-> {},
               ret |-> Pending]

\* Committee::new(round)
Init ==
    /\ committee = EmptyMap
    /\ round \in StartRounds
    /\ peer_addresses = EmptyMap
    /\ address_peers = EmptyMap
    /\ primary_sender = None
    /\ thr = [t \in Threads |-> IdleThread]
    /\ calls = [a \in Idents |-> 0]
    /\ arg = [a \in Idents |-> 0]
    /\ raced = FALSE
    /\ start = round
    /\ advances = 0

\* A call that returned: the thread is idle again and keeps what it was
\* called with (the key) and what it returned.
Returned(t, op, address, peer_ip, ret) ==
    thr' = [thr EXCEPT ![t] = [pc |-> "idle", op |-> op, address |-> address,
                               stake |-> 0, peer_ip |-> peer_ip, sender |-> 0,
                               power |-> 0, todo |-> {}, ret |-> ret]]

(* --------------------------- round counter ---------------------------- *)

RoundCall(t) ==
    /\ thr[t].pc = "idle"
    /\ Returned(t, "round", 0, 0, Val(round))
    /\ UNCHANGED <<committee, round, peer_addresses, address_peers, primary_sender, history>>

\* Faulty variant: the counter stops at the maximum instead of wrapping.
IncrementRoundSaturates(t) ==
    /\ thr[t].pc = "idle"
    /\ advances < MaxAdvances
    /\ round' = IF round = MAX THEN MAX ELSE round + 1
    /\ advances' = advances + 1
    /\ Returned(t, "increment_round", 0, 0, Unit)
    /\ UNCHANGED <<committee, peer_addresses, address_peers, primary_sender,
                   calls, arg, raced, start>>

\* Faulty variant: the counter is stepped down.
IncrementRoundDecrements(t) ==
    /\ thr[t].pc = "idle"
    /\ advances < MaxAdvances
    /\ round' = (round + Modulus - 1) % Modulus
    /\ advances' = advances + 1
    /\ Returned(t, "increment_round", 0, 0, Unit)
    /\ UNCHANGED <<committee, peer_addresses, address_peers, primary_sender,
                   calls, arg, raced, start>>

\* fetch_add(1) is one atomic read-modify-write, wrapping at the maximum.
IncrementRound(t) ==
    /\ thr[t].pc = "idle"
    /\ advances < MaxAdvances
    /\ round' = WrappingAdd(round, 1)
    /\ advances' = advances + 1
    /\ Returned(t, "increment_round", 0, 0, Unit)
    /\ UNCHANGED <<committee, peer_addresses, address_peers, primary_sender,
                   calls, arg, raced, start>>

(* ---------------------------- stake ledger ---------------------------- *)

IsCommitteeMember(m, address) == address \in DOMAIN m

CommitteeSize(m) == Cardinality(DOMAIN m)

GetStake(m, address) == IF address \in DOMAIN m THEN m[address] ELSE 0

\* Faulty variant: the loop stops one value short.
RECURSIVE TotalStakeLoopShort(_, _, _, _)
TotalStakeLoopShort(m, order, i, power) ==
    IF i >= Len(order)
    THEN Ok(power)
    ELSE LET r == CheckedAdd(power, m[order[i]])
         IN  IF r.tag = "Some"
             THEN TotalStakeLoopShort(m, order, i + 1, r.val)
             ELSE Err(StakeOverflow)

\* The loop of total_stake over the values in iteration order `order`,
\* from position i with the running sum `power`.
RECURSIVE TotalStakeLoop(_, _, _, _)
TotalStakeLoop(m, order, i, power) ==
    IF i > Len(order)
    THEN Ok(power)
    ELSE LET r == CheckedAdd(power, m[order[i]])
         IN  IF r.tag = "Some"
             THEN TotalStakeLoop(m, order, i + 1, r.val)
             ELSE Err(StakeOverflow)

TotalStake(m, order) == TotalStakeLoop(m, order, 1, 0)

QuorumThreshold(m, order) ==
    LET total == TotalStake(m, order)
    IN  IF total.tag = "Ok"
        THEN Ok(SaturatingMul(total.val, 2) \div 3 + 1)
        ELSE total

AvailabilityThreshold(m, order) ==
    LET total == TotalStake(m, order)
    IN  IF total.tag = "Ok"
        THEN Ok(SaturatingAdd(total.val, 2) \div 3)
        ELSE total

\* Faulty variant: add_validator without its membership check.
AddValidatorUnchecked(t, address, stake) ==
    /\ thr[t].pc = "idle"
    /\ thr' = [thr EXCEPT ![t] = [pc |-> "insert", op |-> "add_validator",
                                  address |-> address, stake |-> stake,
                                  peer_ip |-> 0, sender |-> 0, power |-> 0,
                                  todo |-> {}, ret |-> Pending]]
    /\ calls' = [calls EXCEPT ![address] = IF @ = 0 THEN 1 ELSE 2]
    /\ arg' = IF calls[address] = 0 THEN [arg EXCEPT ![address] = stake] ELSE arg
    /\ raced' = (raced \/ \E u \in Threads \ {t} : thr[u].pc = "insert")
    /\ UNCHANGED <<committee, round, peer_addresses, address_peers, primary_sender,
                   start, advances>>

\* add_validator up to the end of its membership check: bails out when the
\* address is a member, else goes on to the insertion.
AddValidatorCheck(t, address, stake) ==
    /\ thr[t].pc = "idle"
    /\ IF IsCommitteeMember(committee, address)
       THEN Returned(t, "add_validator", address, 0, Err(DuplicateMember))
       ELSE thr' = [thr EXCEPT ![t] = [pc |-> "insert", op |-> "add_validator",
                                       address |-> address, stake |-> stake,
                                       peer_ip |-> 0, sender |-> 0, power |-> 0,
                                       todo |-> {}, ret |-> Pending]]
    /\ calls' = [calls EXCEPT ![address] = IF @ = 0 THEN 1 ELSE 2]
    /\ arg' = IF calls[address] = 0 THEN [arg EXCEPT ![address] = stake] ELSE arg
    /\ raced' = (raced \/ \E u \in Threads \ {t} : thr[u].pc = "insert")
    /\ UNCHANGED <<committee, round, peer_addresses, address_peers, primary_sender,
                   start, advances>>

\* Faulty variant: an insertion that refuses a stake that would make the sum of the
\* stakes overflow.
AddValidatorInsertChecked(t) ==
    /\ thr[t].pc = "insert"
    /\ LET others == [a \in (DOMAIN committee) \ {thr[t].address} |-> committee[a]]
           fits == \A order \in Orders(others) :
                       TotalStakeLoop(others, order, 1, thr[t].stake).tag = "Ok"
       IN  IF fits
           THEN /\ committee' = MapInsert(committee, thr[t].address, thr[t].stake)
                /\ Returned(t, "add_validator", thr[t].address, 0, Ok(0))
           ELSE /\ committee' = committee
                /\ Returned(t, "add_validator", thr[t].address, 0, Err(StakeOverflow))
    /\ UNCHANGED <<round, peer_addresses, address_peers, primary_sender, history>>

\* total_stake keeps the read guard of committee from the start of its loop
\* to its return, and the insertion needs the write guard.
CommitteeFree == \A u \in Threads : thr[u].pc # "sum"

\* Faulty variant: an insertion that does not wait for the readers.
AddValidatorInsertUnlocked(t) ==
    /\ thr[t].pc = "insert"
    /\ committee' = MapInsert(committee, thr[t].address, thr[t].stake)
    /\ Returned(t, "add_validator", thr[t].address, 0, Ok(0))
    /\ UNCHANGED <<round, peer_addresses, address_peers, primary_sender, history>>

\* add_validator from the insertion to its return.
AddValidatorInsert(t) ==
    /\ thr[t].pc = "insert"
    /\ CommitteeFree
    /\ committee' = MapInsert(committee, thr[t].address, thr[t].stake)
    /\ Returned(t, "add_validator", thr[t].address, 0, Ok(0))
    /\ UNCHANGED <<round, peer_addresses, address_peers, primary_sender, history>>

CommitteeSizeCall(t) ==
    /\ thr[t].pc = "idle"
    /\ Returned(t, "committee_size", 0, 0, Val(CommitteeSize(committee)))
    /\ UNCHANGED <<committee, round, peer_addresses, address_peers, primary_sender, history>>

IsCommitteeMemberCall(t, address) ==
    /\ thr[t].pc = "idle"
    /\ Returned(t, "is_committee_member", address, 0,
                BoolVal(IsCommitteeMember(committee, address)))
    /\ UNCHANGED <<committee, round, peer_addresses, address_peers, primary_sender, history>>

\* Faulty variant: a lookup that leaves a zero entry behind for an absent address.
GetStakeCallInserts(t, address) ==
    /\ thr[t].pc = "idle"
    /\ Returned(t, "get_stake", address, 0, Val(GetStake(committee, address)))
    /\ committee' = IF address \in DOMAIN committee
                    THEN committee
                    ELSE MapInsert(committee, address, 0)
    /\ UNCHANGED <<round, peer_addresses, address_peers, primary_sender, history>>

\* Faulty variant: a lookup that goes through the guard of peer_addresses, as
\* if one lock covered the whole committee.
GetStakeCallGlobalLock(t, address) ==
    /\ thr[t].pc = "idle"
    /\ \A u \in Threads : thr[u].pc # "remove_reverse"
    /\ Returned(t, "get_stake", address, 0, Val(GetStake(committee, address)))
    /\ UNCHANGED <<committee, round, peer_addresses, address_peers, primary_sender, history>>

GetStakeCall(t, address) ==
    /\ thr[t].pc = "idle"
    /\ Returned(t, "get_stake", address, 0, Val(GetStake(committee, address)))
    /\ UNCHANGED <<committee, round, peer_addresses, address_peers, primary_sender, history>>

\* total_stake holds the read guard for the whole loop, so the loop is one step.
TotalStakeCall(t) ==
    /\ thr[t].pc = "idle"
    /\ \E order \in Orders(committee) :
           Returned(t, "total_stake", 0, 0, TotalStake(committee, order))
    /\ UNCHANGED <<committee, round, peer_addresses, address_peers, primary_sender, history>>

\* total_stake, statement by statement: the read guard is taken and the
\* iterator made.
TotalStakeBegin(t) ==
    /\ thr[t].pc = "idle"
    /\ thr' = [thr EXCEPT ![t] = [pc |-> "sum", op |-> "total_stake",
                                  address |-> 0, stake |-> 0, peer_ip |-> 0,
                                  sender |-> 0, power |-> 0,
                                  todo |-> DOMAIN committee, ret |-> Pending]]
    /\ UNCHANGED <<committee, round, peer_addresses, address_peers, primary_sender, history>>

\* One turn of the loop, on whichever entry the iterator gives next; an
\* overflow returns from inside the loop.
TotalStakeStep(t) ==
    /\ thr[t].pc = "sum"
    /\ \E address \in thr[t].todo :
           LET r == CheckedAdd(thr[t].power, committee[address])
           IN  IF r.tag = "Some"
               THEN thr' = [thr EXCEPT ![t].power = r.val,
                                       ![t].todo = @ \ {address}]
               ELSE Returned(t, "total_stake", 0, 0, Err(StakeOverflow))
    /\ UNCHANGED <<committee, round, peer_addresses, address_peers, primary_sender, history>>

\* The iterator is exhausted: the guard is dropped and the sum returned.
TotalStakeEnd(t) ==
    /\ thr[t].pc = "sum"
    /\ thr[t].todo = {}
    /\ Returned(t, "total_stake", 0, 0, Ok(thr[t].power))
    /\ UNCHANGED <<committee, round, peer_addresses, address_peers, primary_sender, history>>

QuorumThresholdCall(t) ==
    /\ thr[t].pc = "idle"
    /\ \E order \in Orders(committee) :
           Returned(t, "quorum_threshold", 0, 0, QuorumThreshold(committee, order))
    /\ UNCHANGED <<committee, round, peer_addresses, address_peers, primary_sender, history>>

AvailabilityThresholdCall(t) ==
    /\ thr[t].pc = "idle"
    /\ \E order \in Orders(committee) :
           Returned(t, "availability_threshold", 0, 0,
                    AvailabilityThreshold(committee, order))
    /\ UNCHANGED <<committee, round, peer_addresses, address_peers, primary_sender, history>>

(* --------------------------- peer directory --------------------------- *)

\* remove_peer keeps the write guard of peer_addresses while it removes the
\* reverse entry; every other guard is dropped at the end of its statement.
PeerAddressesFree == \A u \in Threads : thr[u].pc # "remove_reverse"

GetPeerIpCall(t, address) ==
    /\ thr[t].pc = "idle"
    /\ Returned(t, "get_peer_ip", address, 0, MapGet(address_peers, address))
    /\ UNCHANGED <<committee, round, peer_addresses, address_peers, primary_sender, history>>

GetAddressCall(t, peer_ip) ==
    /\ thr[t].pc = "idle"
    /\ PeerAddressesFree
    /\ Returned(t, "get_address", 0, peer_ip, MapGet(peer_addresses, peer_ip))
    /\ UNCHANGED <<committee, round, peer_addresses, address_peers, primary_sender, history>>

\* insert_peer, first statement.
InsertPeerForward(t, peer_ip, address) ==
    /\ thr[t].pc = "idle"
    /\ PeerAddressesFree
    /\ peer_addresses' = MapInsert(peer_addresses, peer_ip, address)
    /\ thr' = [thr EXCEPT ![t] = [pc |-> "insert_reverse", op |-> "insert_peer",
                                  address |-> address, stake |-> 0,
                                  peer_ip |-> peer_ip, sender |-> 0, power |-> 0,
                                  todo |-> {}, ret |-> Pending]]
    /\ UNCHANGED <<committee, round, address_peers, primary_sender, history>>

\* insert_peer, second statement.
InsertPeerReverse(t) ==
    /\ thr[t].pc = "insert_reverse"
    /\ address_peers' = MapInsert(address_peers, thr[t].address, thr[t].peer_ip)
    /\ Returned(t, "insert_peer", thr[t].address, thr[t].peer_ip, Unit)
    /\ UNCHANGED <<committee, round, peer_addresses, primary_sender, history>>

\* remove_peer, the scrutinee of the if-let.
RemovePeerForward(t, peer_ip) ==
    /\ thr[t].pc = "idle"
    /\ PeerAddressesFree
    /\ peer_addresses' = MapRemove(peer_addresses, peer_ip)
    /\ IF peer_ip \in DOMAIN peer_addresses
       THEN thr' = [thr EXCEPT ![t] = [pc |-> "remove_reverse", op |-> "remove_peer",
                                       address |-> peer_addresses[peer_ip],
                                       stake |-> 0, peer_ip |-> peer_ip,
                                       sender |-> 0, power |-> 0, todo |-> {}, ret |-> Pending]]
       ELSE Returned(t, "remove_peer", 0, peer_ip, Unit)
    /\ UNCHANGED <<committee, round, address_peers, primary_sender, history>>

\* Faulty variant: the body of the if-let leaves the reverse entry in place.
RemovePeerReverseSkips(t) ==
    /\ thr[t].pc = "remove_reverse"
    /\ address_peers' = address_peers
    /\ Returned(t, "remove_peer", thr[t].address, thr[t].peer_ip, Unit)
    /\ UNCHANGED <<committee, round, peer_addresses, primary_sender, history>>

\* Faulty variant: the body of the if-let asks for the guard of peer_addresses again.
RemovePeerReverseRelocks(t) ==
    /\ thr[t].pc = "remove_reverse"
    /\ PeerAddressesFree
    /\ address_peers' = MapRemove(address_peers, thr[t].address)
    /\ Returned(t, "remove_peer", thr[t].address, thr[t].peer_ip, Unit)
    /\ UNCHANGED <<committee, round, peer_addresses, primary_sender, history>>

\* remove_peer, the body of the if-let.
RemovePeerReverse(t) ==
    /\ thr[t].pc = "remove_reverse"
    /\ address_peers' = MapRemove(address_peers, thr[t].address)
    /\ Returned(t, "remove_peer", thr[t].address, thr[t].peer_ip, Unit)
    /\ UNCHANGED <<committee, round, peer_addresses, primary_sender, history>>

(* --------------------------- sender binding --------------------------- *)

\* A panic ends the call, not the handle: no lock is held at either expect,
\* and the thread stands for the callers that come after.

\* Faulty variant: an unset cell is read as a default sender.
PrimarySenderCallDefault(t) ==
    /\ thr[t].pc = "idle"
    /\ Returned(t, "primary_sender", 0, 0, Val(primary_sender.val))
    /\ UNCHANGED <<committee, round, peer_addresses, address_peers, primary_sender, history>>

\* OnceCell::get().expect(..)
PrimarySenderCall(t) ==
    /\ thr[t].pc = "idle"
    /\ IF primary_sender.tag = "Some"
       THEN Returned(t, "primary_sender", 0, 0, Val(primary_sender.val))
       ELSE Returned(t, "primary_sender", 0, 0, Panic(SenderNotSet))
    /\ UNCHANGED <<committee, round, peer_addresses, address_peers, primary_sender, history>>

\* The permit of the cell is taken by a set that has not stored its value yet.
SenderPermitFree == \A u \in Threads : thr[u].pc # "set_value"

\* Faulty variant: a set that does not look at the cell first.
SetPrimarySenderUnchecked(t, sender) ==
    /\ thr[t].pc = "idle"
    /\ thr' = [thr EXCEPT ![t] = [pc |-> "set_value", op |-> "set_primary_sender",
                                  address |-> 0, stake |-> 0, peer_ip |-> 0,
                                  sender |-> sender, power |-> 0, todo |-> {},
                                  ret |-> Pending]]
    /\ UNCHANGED <<committee, round, peer_addresses, address_peers, primary_sender, history>>

\* OnceCell::set up to taking the permit: an initialized cell, or one that
\* another set is initializing, gives Err, on which expect panics.
SetPrimarySenderAcquire(t, sender) ==
    /\ thr[t].pc = "idle"
    /\ IF primary_sender.tag = "Some" \/ ~SenderPermitFree
       THEN Returned(t, "set_primary_sender", 0, 0, Panic(SenderAlreadySet))
       ELSE thr' = [thr EXCEPT ![t] = [pc |-> "set_value", op |-> "set_primary_sender",
                                       address |-> 0, stake |-> 0, peer_ip |-> 0,
                                       sender |-> sender, power |-> 0, todo |-> {},
                                       ret |-> Pending]]
    /\ UNCHANGED <<committee, round, peer_addresses, address_peers, primary_sender, history>>

\* OnceCell::set from storing the value to its return.
SetPrimarySenderValue(t) ==
    /\ thr[t].pc = "set_value"
    /\ primary_sender' = Some(thr[t].sender)
    /\ Returned(t, "set_primary_sender", 0, 0, Unit)
    /\ UNCHANGED <<committee, round, peer_addresses, address_peers, history>>

(* --------------------------- specifications --------------------------- *)

\* Concurrent registration.
NextLedger ==
    \E t \in Threads :
        \/ \E address \in Idents, stake \in RaceStakes :
               AddValidatorCheck(t, address, stake)
        \/ AddValidatorInsert(t)

\* Registration by every thread concurrent with summation by one of them:
\* readers share the guard and do not see each other.
NextSnapshot ==
    \/ \E t \in Threads :
           \/ \E address \in Idents, stake \in RaceStakes :
                  AddValidatorCheck(t, address, stake)
           \/ AddValidatorInsert(t)
    \/ TotalStakeBegin(1)
    \/ TotalStakeStep(1)
    \/ TotalStakeEnd(1)

\* The stakes the sequential driver passes for an address: a call on a
\* member is refused before its stake is looked at, so the boundary values
\* are enough there.
SeqStakes(address) ==
    IF address \in DOMAIN committee THEN BoundaryStakes ELSE StakeInputs(address)

\* One thread registering and reading the ledger.
NextSeq ==
    \/ \E address \in Idents : \E stake \in SeqStakes(address) :
           AddValidatorCheck(1, address, stake)
    \/ AddValidatorInsert(1)
    \/ CommitteeSizeCall(1)
    \/ \E address \in Idents : IsCommitteeMemberCall(1, address)
    \/ \E address \in Idents : GetStakeCall(1, address)
    \/ TotalStakeCall(1)
    \/ QuorumThresholdCall(1)
    \/ AvailabilityThresholdCall(1)

\* Concurrent use of the peer directory.
NextPeers ==
    \E t \in Threads :
        \/ \E address \in Idents : GetPeerIpCall(t, address)
        \/ \E peer_ip \in PeerIps : GetAddressCall(t, peer_ip)
        \/ \E peer_ip \in PeerIps, address \in Idents :
               InsertPeerForward(t, peer_ip, address)
        \/ InsertPeerReverse(t)
        \/ \E peer_ip \in PeerIps : RemovePeerForward(t, peer_ip)
        \/ RemovePeerReverse(t)

\* One thread using the peer directory.
NextPeersSeq ==
    \/ \E address \in Idents : GetPeerIpCall(1, address)
    \/ \E peer_ip \in PeerIps : GetAddressCall(1, peer_ip)
    \/ \E peer_ip \in PeerIps, address \in Idents :
           InsertPeerForward(1, peer_ip, address)
    \/ InsertPeerReverse(1)
    \/ \E peer_ip \in PeerIps : RemovePeerForward(1, peer_ip)
    \/ RemovePeerReverse(1)

\* One thread registering, binding, unbinding and looking keys up. Which
\* keys are present is all a lookup depends on, so one registered address
\* with one stake gives the ledger its present and its absent keys.
NextLookups ==
    \/ AddValidatorCheck(1, 1, 1)
    \/ AddValidatorInsert(1)
    \/ \E address \in Idents : IsCommitteeMemberCall(1, address)
    \/ \E address \in Idents : GetStakeCall(1, address)
    \/ NextPeersSeq

\* Thread 1 binding and unbinding peers while the other threads register
\* and read the ledger. Which lock is held depends on no key, so the calls
\* are made on address 1.
NextIndependent ==
    \/ \E peer_ip \in PeerIps : InsertPeerForward(1, peer_ip, 1)
    \/ InsertPeerReverse(1)
    \/ \E peer_ip \in PeerIps : RemovePeerForward(1, peer_ip)
    \/ RemovePeerReverse(1)
    \/ \E t \in Threads \ {1} :
           \/ AddValidatorCheck(t, 1, 1)
           \/ AddValidatorInsert(t)
           \/ CommitteeSizeCall(t)
           \/ IsCommitteeMemberCall(t, 1)
           \/ GetStakeCall(t, 1)
           \/ TotalStakeBegin(t)
           \/ TotalStakeStep(t)
           \/ TotalStakeEnd(t)

\* Concurrent use of the round counter.
NextRound ==
    \E t \in Threads :
        \/ RoundCall(t)
        \/ IncrementRound(t)

\* Concurrent use of the sender binding.
NextSender ==
    \E t \in Threads :
        \/ PrimarySenderCall(t)
        \/ \E sender \in Senders : SetPrimarySenderAcquire(t, sender)
        \/ SetPrimarySenderValue(t)

\* The first step of the one call a thread makes in a finite set of calls.
\* Which guard a call takes depends on no key, and only remove_peer branches
\* on one, so the ledger calls and the lookups are made on key 1 and the
\* peers are bound to address 1.
LiveStart(t) ==
    /\ thr[t].op = "none"
    /\ \/ AddValidatorCheck(t, 1, 1)
       \/ CommitteeSizeCall(t)
       \/ IsCommitteeMemberCall(t, 1)
       \/ GetStakeCall(t, 1)
       \/ TotalStakeBegin(t)
       \/ GetPeerIpCall(t, 1)
       \/ GetAddressCall(t, 1)
       \/ \E peer_ip \in PeerIps : InsertPeerForward(t, peer_ip, 1)
       \/ \E peer_ip \in PeerIps : RemovePeerForward(t, peer_ip)
       \/ RoundCall(t)
       \/ IncrementRound(t)
       \/ PrimarySenderCall(t)
       \/ \E sender \in Senders : SetPrimarySenderAcquire(t, sender)

\* The later steps of a call.
LiveContinue(t) ==
    \/ AddValidatorInsert(t)
    \/ TotalStakeStep(t)
    \/ TotalStakeEnd(t)
    \/ InsertPeerReverse(t)
    \/ RemovePeerReverse(t)
    \/ SetPrimarySenderValue(t)

\* A finite set of calls, one per thread, of every operation.
NextLive == \E t \in Threads : LiveStart(t) \/ LiveContinue(t)

Next == NextLedger \/ NextSeq \/ NextPeers

\* Committee::new(0): the ledger and the peer directory never read the round.
InitAtZero == Init /\ round = 0

SpecLedger == InitAtZero /\ [][NextLedger]_vars
SpecSeq == InitAtZero /\ [][NextSeq]_vars
SpecPeers == InitAtZero /\ [][NextPeers]_vars
SpecPeersSeq == InitAtZero /\ [][NextPeersSeq]_vars
SpecLookups == InitAtZero /\ [][NextLookups]_vars
SpecSnapshot == InitAtZero /\ [][NextSnapshot]_vars
SpecIndependent == InitAtZero /\ [][NextIndependent]_vars
SpecRound == Init /\ [][NextRound]_vars
SpecSender == Init /\ [][NextSender]_vars
\* Every thread that can take a step is scheduled in the end; a lock is
\* granted to a thread that keeps asking once it stays free.
SpecLive ==
    /\ InitAtZero
    /\ [][NextLive]_vars
    /\ \A t \in Threads : WF_vars(LiveStart(t) \/ LiveContinue(t))
Spec == Init /\ [][Next]_vars

(* ------------------------------- claims ------------------------------- *)

\* The exact sum of f over the keys in S, in unbounded integers.
RECURSIVE SumOver(_, _)
SumOver(f, S) ==
    IF S = {} THEN 0
    ELSE LET x == CHOOSE y \in S : TRUE IN f[x] + SumOver(f, S \ {x})

\* The exact sum of the registered stakes.
MathSum == SumOver(committee, DOMAIN committee)
\* The add_validator calls made so far were on pairwise distinct addresses.
DistinctCalls == \A a \in Idents : calls[a] <= 1
\* The number of add_validator calls made so far (exact under DistinctCalls).
NumCalls == SumOver(calls, Idents)
\* The sum of the stakes passed to the first call on each address.
SumArgs == SumOver(arg, {a \in Idents : calls[a] > 0})
AllIdle == \A t \in Threads : thr[t].pc = "idle"

\* C1: an add_validator call on an address that is in the committee returns
\* the DuplicateMember error at once and changes nothing of the committee
\* state: the map (so the member's stake and the member count), the round,
\* both peer maps and the sender slot.
C1_DuplicateRegisterFails ==
    [][\A t \in Threads :
          ( /\ thr[t].pc = "idle"
            /\ thr'[t] # thr[t]
            /\ thr'[t].op = "add_validator"
            /\ thr'[t].address \in DOMAIN committee )
          => /\ thr'[t].pc = "idle"
             /\ thr'[t].ret = Err(DuplicateMember)
             /\ UNCHANGED <<committee, round, peer_addresses, address_peers,
                            primary_sender>>]_vars

C1_Witness ==
    \E t \in Threads :
        /\ thr[t].pc = "idle"
        /\ thr[t].op = "add_validator"
        /\ thr[t].ret = Err(DuplicateMember)
        /\ thr[t].address \in DOMAIN committee
        /\ calls[thr[t].address] = 2

\* C2: after a sequence of add_validator calls on pairwise distinct
\* addresses, starting from the empty committee, committee_size returns the
\* number of calls and, when the sum of the stakes passed fits, total_stake
\* returns Ok of that sum.
C2_DistinctRegistersCounted ==
    (DistinctCalls /\ AllIdle) =>
        \A t \in Threads :
            /\ thr[t].op = "committee_size" => thr[t].ret = Val(NumCalls)
            /\ (thr[t].op = "total_stake" /\ SumArgs <= MAX)
                   => thr[t].ret = Ok(SumArgs)

C2_Witness ==
    /\ DistinctCalls
    /\ NumCalls = NIdents
    /\ \E t \in Threads :
           /\ thr[t].pc = "idle"
           /\ thr[t].op = "total_stake"
           /\ thr[t].ret.tag = "Ok"
           /\ thr[t].ret.val > NIdents

\* C3: once an address is in the committee it is never removed and its
\* stake never changes, whatever add_validator calls race on it: get_stake
\* keeps returning the stake of the first registration.
C3_StakeFixedOnceRegistered ==
    [][\A a \in DOMAIN committee :
          /\ a \in DOMAIN committee'
          /\ GetStake(committee', a) = GetStake(committee, a)]_vars

\* C4: when the add_validator calls made, concurrently or not, are on
\* pairwise distinct addresses, every call that returned returned Ok, every
\* address whose call returned is in the committee with the stake passed,
\* and once all calls returned committee_size is the number of calls.
C4_ConcurrentDistinctRegisters ==
    DistinctCalls =>
        /\ \A t \in Threads :
               (thr[t].pc = "idle" /\ thr[t].op = "add_validator")
                   => thr[t].ret = Ok(0)
        /\ \A a \in Idents :
               (calls[a] = 1 /\ \A t \in Threads :
                                    ~(thr[t].pc = "insert" /\ thr[t].address = a))
                   => (a \in DOMAIN committee /\ committee[a] = arg[a])
        /\ AllIdle => CommitteeSize(committee) = NumCalls

C4_Witness ==
    /\ DistinctCalls
    /\ raced
    /\ AllIdle
    /\ NumCalls = NIdents
    /\ CommitteeSize(committee) = NIdents

\* C5 as claimed: in every reachable state the sum of the registered stakes
\* fits in the unsigned range.
C5_SumAlwaysFits == MathSum <= MAX

\* C5 amended: every registered stake fits in the unsigned range, and
\* add_validator refuses nothing but a member: a call on an address that is
\* not in the committee goes on to the insertion, which stores the stake as
\* passed and returns Ok, whatever the sum of the stakes becomes.
C5_RegisterIgnoresSum ==
    /\ [](\A a \in DOMAIN committee : committee[a] \in 0 .. MAX)
    /\ [][\A t \in Threads :
             /\ ( /\ thr[t].pc = "idle"
                  /\ thr'[t] # thr[t]
                  /\ thr'[t].op = "add_validator"
                  /\ thr'[t].address \notin DOMAIN committee )
                => thr'[t].pc = "insert"
             /\ (thr[t].pc = "insert" /\ thr'[t] # thr[t])
                => /\ thr'[t].pc = "idle"
                   /\ thr'[t].ret = Ok(0)
                   /\ thr[t].address \in DOMAIN committee'
                   /\ committee'[thr[t].address] = thr[t].stake]_vars

C5_Witness ==
    /\ MathSum > MAX
    /\ \E t \in Threads :
           /\ thr[t].pc = "idle"
           /\ thr[t].op = "add_validator"
           /\ thr[t].ret = Ok(0)

\* C6: when the exact sum of the registered stakes exceeds the maximum,
\* total_stake returns the StakeOverflow error for every iteration order of
\* the map, never a number, and quorum_threshold and availability_threshold
\* return the same error.
C6_OverflowReported ==
    \A t \in Threads :
        ( /\ thr[t].pc = "idle"
          /\ thr[t].op \in {"total_stake", "quorum_threshold", "availability_threshold"}
          /\ AllIdle
          /\ MathSum > MAX )
        => thr[t].ret = Err(StakeOverflow)

C6_Witness ==
    /\ MathSum > MAX
    /\ CommitteeSize(committee) = NIdents
    /\ \E t \in Threads :
           /\ thr[t].pc = "idle"
           /\ thr[t].op = "quorum_threshold"
           /\ thr[t].ret = Err(StakeOverflow)

\* C7: when total_stake succeeds with T, quorum_threshold returns
\* floor(2 * T / 3) + 1 with 2 * T the exact product, that is
\* 3 * q > 2 * T and 3 * q <= 2 * T + 3.
C7_QuorumIsTwoThirdsPlusOne ==
    \A t \in Threads :
        ( /\ thr[t].pc = "idle"
          /\ thr[t].op = "quorum_threshold"
          /\ AllIdle
          /\ MathSum <= MAX )
        => /\ thr[t].ret = Ok((2 * MathSum) \div 3 + 1)
           /\ 3 * thr[t].ret.val > 2 * MathSum
           /\ 3 * thr[t].ret.val <= 2 * MathSum + 3

\* C8: when total_stake succeeds with T, availability_threshold returns Ok
\* of floor((T + 2) / 3), which is the least a with 3 * a >= T, also for T
\* within 2 of the maximum, where the addition saturates.
C8_AvailabilityIsCeilThird ==
    \A t \in Threads :
        ( /\ thr[t].pc = "idle"
          /\ thr[t].op = "availability_threshold"
          /\ AllIdle
          /\ MathSum <= MAX )
        => /\ thr[t].ret = Ok((MathSum + 2) \div 3)
           /\ 3 * thr[t].ret.val >= MathSum
           /\ 3 * (thr[t].ret.val - 1) < MathSum

C8_Witness ==
    /\ MathSum <= MAX
    /\ MathSum + 2 > MAX
    /\ \E t \in Threads :
           /\ thr[t].pc = "idle"
           /\ thr[t].op = "availability_threshold"
           /\ thr[t].ret.tag = "Ok"

\* C9: at every instant the two peer maps mirror each other: peer IP A maps
\* to address V in peer_addresses exactly when address V maps to peer IP A
\* in address_peers.
C9_PeerMapsConsistent ==
    /\ \A ip \in DOMAIN peer_addresses :
           MapGet(address_peers, peer_addresses[ip]) = Some(ip)
    /\ \A a \in DOMAIN address_peers :
           MapGet(peer_addresses, address_peers[a]) = Some(a)

\* C10: when insert_peer(B, X) returns in a state where X was bound to
\* another peer IP A (by an earlier insert_peer(A, X)) and no other call is
\* in flight, get_peer_ip(X) is B and get_address(A) is not found.
C10_RebindLeavesNoStaleEntry ==
    [][\A t \in Threads : \A ip \in PeerIps :
          ( /\ thr[t].pc = "insert_reverse"
            /\ thr'[t].pc = "idle"
            /\ \A u \in Threads \ {t} : thr[u].pc = "idle"
            /\ ip # thr[t].peer_ip
            /\ MapGet(address_peers, thr[t].address) = Some(ip)
            /\ MapGet(peer_addresses, ip) = Some(thr[t].address) )
          => /\ MapGet(address_peers', thr[t].address) = Some(thr[t].peer_ip)
             /\ MapGet(peer_addresses', ip) = None]_vars

\* C11: remove_peer(A) returns unit and never an error.  When A is bound to
\* X, its first statement removes the entry of A alone from peer_addresses
\* and its second the entry of X alone from address_peers, so that at its
\* return get_address(A) and get_peer_ip(X) are both not found and the
\* lookup of every other peer IP and of every other address is as before;
\* when A is not bound, both maps are left as they are.
C11_UnbindRemovesBothEntries ==
    [][\A t \in Threads :
          /\ ( /\ thr[t].pc = "idle"
               /\ thr'[t] # thr[t]
               /\ thr'[t].op = "remove_peer"
               /\ thr'[t].peer_ip \notin DOMAIN peer_addresses )
             => /\ thr'[t].pc = "idle"
                /\ thr'[t].ret = Unit
                /\ UNCHANGED <<peer_addresses, address_peers>>
          /\ ( /\ thr[t].pc = "idle"
               /\ thr'[t] # thr[t]
               /\ thr'[t].op = "remove_peer"
               /\ thr'[t].peer_ip \in DOMAIN peer_addresses )
             => /\ thr'[t].pc = "remove_reverse"
                /\ thr'[t].address = peer_addresses[thr'[t].peer_ip]
                /\ MapGet(peer_addresses', thr'[t].peer_ip) = None
                /\ \A ip \in PeerIps \ {thr'[t].peer_ip} :
                       MapGet(peer_addresses', ip) = MapGet(peer_addresses, ip)
                /\ UNCHANGED address_peers
          /\ (thr[t].pc = "remove_reverse" /\ thr'[t] # thr[t])
             => /\ thr'[t].pc = "idle"
                /\ thr'[t].ret = Unit
                /\ MapGet(peer_addresses', thr[t].peer_ip) = None
                /\ MapGet(address_peers', thr[t].address) = None
                /\ \A a \in Idents \ {thr[t].address} :
                       MapGet(address_peers', a) = MapGet(address_peers, a)
                /\ UNCHANGED peer_addresses]_vars

C11_Witness ==
    \E t \in Threads :
        /\ thr[t].pc = "idle"
        /\ thr[t].op = "remove_peer"
        /\ thr[t].address # 0
        /\ MapGet(address_peers, thr[t].address) = None
        /\ MapGet(peer_addresses, thr[t].peer_ip) = None
        /\ DOMAIN peer_addresses # {}
        /\ DOMAIN address_peers # {}

\* C12: after N increment_round calls, made by one thread or by several in
\* any interleaving, on a committee created at round R, the round is
\* R + N modulo 2^width, and a round() call returns R + n modulo 2^width
\* for the n <= N increments that came before it.
C12_RoundIsStartPlusCalls ==
    /\ round = (start + advances) % Modulus
    /\ \A t \in Threads :
           (thr[t].pc = "idle" /\ thr[t].op = "round")
               => \E n \in 0 .. advances :
                      thr[t].ret = Val((start + n) % Modulus)

C12_Witness ==
    /\ start = MAX
    /\ advances = MaxAdvances
    /\ round = MaxAdvances - 1
    /\ \E t, u \in Threads :
           /\ t # u
           /\ thr[t].op = "increment_round"
           /\ thr[u].op = "increment_round"

\* C13 as claimed: the round never decreases.
C13_RoundNeverDecreases == [][round' >= round]_vars

\* C13 amended: a step either leaves the round as it is or, being an
\* increment_round, moves it up by one, except at the maximum, where the
\* counter wraps to 0; round() returns the round of the instant it runs
\* without changing it.
C13_RoundStepsUpOrWraps ==
    [][/\ \/ round' = round
          \/ (round < MAX /\ round' = round + 1)
          \/ (round = MAX /\ round' = 0)
       /\ round' # round
              => \E t \in Threads : /\ thr'[t].pc = "idle"
                                    /\ thr'[t].op = "increment_round"
       /\ \A t \in Threads :
              (thr'[t] # thr[t] /\ thr'[t].op = "round")
                  => (thr'[t].ret = Val(round) /\ round' = round)]_vars

C13_Witness ==
    /\ start = MAX
    /\ advances >= 2
    /\ round = advances - 1
    /\ \E t \in Threads :
           /\ thr[t].op = "round"
           /\ thr[t].ret = Val(round)

\* C14: a primary_sender() call on an unset cell panics and returns no
\* sender, and a set_primary_sender call on a set cell panics and leaves
\* the installed sender in place.
C14_SenderMisusePanics ==
    [][\A t \in Threads :
          /\ ( /\ thr'[t] # thr[t]
               /\ thr'[t].op = "primary_sender"
               /\ primary_sender = None )
             => /\ thr'[t].ret = Panic(SenderNotSet)
                /\ primary_sender' = None
          /\ ( /\ thr[t].pc = "idle"
               /\ thr'[t] # thr[t]
               /\ thr'[t].op = "set_primary_sender"
               /\ primary_sender # None )
             => /\ thr'[t].pc = "idle"
                /\ thr'[t].ret = Panic(SenderAlreadySet)
                /\ primary_sender' = primary_sender]_vars

C14_Witness ==
    /\ primary_sender # None
    /\ \E t, u \in Threads :
           /\ thr[t].op = "primary_sender"
           /\ thr[t].ret = Panic(SenderNotSet)
           /\ thr[u].op = "set_primary_sender"
           /\ thr[u].ret = Panic(SenderAlreadySet)

\* C15: the cell is unset at construction; at most one set_primary_sender
\* call stores its sender, and it does so in an unset cell; a call that
\* panicked did so because the cell was set or being set; once set, the
\* cell never changes and every primary_sender() call returns that sender.
C15_SenderWrittenOnce ==
    /\ primary_sender = None
    /\ [](Cardinality({t \in Threads : thr[t].pc = "set_value"}) <= 1)
    /\ [](\A t \in Threads :
              (thr[t].pc = "set_value" \/ thr[t].ret = Panic(SenderAlreadySet))
                  => (primary_sender # None \/ ~SenderPermitFree))
    /\ [][/\ primary_sender # None => primary_sender' = primary_sender
          /\ \A t \in Threads :
                 /\ (thr[t].pc = "set_value" /\ thr'[t] # thr[t])
                    => /\ primary_sender = None
                       /\ primary_sender' = Some(thr[t].sender)
                       /\ thr'[t].ret = Unit
                 /\ ( /\ thr'[t] # thr[t]
                      /\ thr'[t].op = "primary_sender"
                      /\ primary_sender # None )
                    => thr'[t].ret = Val(primary_sender.val)]_vars

C15_Witness ==
    /\ primary_sender # None
    /\ \E t, u \in Threads :
           /\ thr[t].op = "primary_sender"
           /\ thr[t].ret = Val(primary_sender.val)
           /\ thr[u].op = "set_primary_sender"
           /\ thr[u].ret = Panic(SenderAlreadySet)

\* C16: a lookup of an absent key returns a value, not an error, and changes
\* nothing: get_stake of a non-member returns 0, is_committee_member returns
\* false, get_peer_ip of an address without an entry and get_address of a
\* peer IP without an entry return None.
C16_AbsentLookupsAreSilent ==
    [][\A t \in Threads :
          (thr'[t] # thr[t] /\ thr'[t].pc = "idle") =>
              /\ (thr'[t].op = "get_stake" /\ thr'[t].address \notin DOMAIN committee)
                 => /\ thr'[t].ret = Val(0)
                    /\ UNCHANGED <<committee, round, peer_addresses, address_peers,
                                   primary_sender>>
              /\ ( /\ thr'[t].op = "is_committee_member"
                   /\ thr'[t].address \notin DOMAIN committee )
                 => /\ thr'[t].ret = BoolVal(FALSE)
                    /\ UNCHANGED <<committee, round, peer_addresses, address_peers,
                                   primary_sender>>
              /\ ( /\ thr'[t].op = "get_peer_ip"
                   /\ thr'[t].address \notin DOMAIN address_peers )
                 => /\ thr'[t].ret = None
                    /\ UNCHANGED <<committee, round, peer_addresses, address_peers,
                                   primary_sender>>
              /\ ( /\ thr'[t].op = "get_address"
                   /\ thr'[t].peer_ip \notin DOMAIN peer_addresses )
                 => /\ thr'[t].ret = None
                    /\ UNCHANGED <<committee, round, peer_addresses, address_peers,
                                   primary_sender>>]_vars

\* A non-member was looked up in a non-empty ledger next to a non-empty
\* peer directory.
C16_Witness ==
    /\ committee # EmptyMap
    /\ peer_addresses # EmptyMap
    /\ thr[1].pc = "idle"
    /\ thr[1].op = "get_stake"
    /\ thr[1].address \notin DOMAIN committee
    /\ thr[1].ret = Val(0)

\* C17: from the call of total_stake to its return the ledger does not
\* change, the running sum is the exact sum of the entries visited so far,
\* and the call returns the exact sum of that ledger, or the overflow error
\* when that sum does not fit.
C17_TotalStakeIsSnapshot ==
    /\ [](\A t \in Threads : thr[t].pc = "sum" =>
              /\ thr[t].todo \subseteq DOMAIN committee
              /\ thr[t].power = SumOver(committee, (DOMAIN committee) \ thr[t].todo))
    /\ [][/\ (\E t \in Threads : thr[t].pc = "sum") => committee' = committee
          /\ \A t \in Threads :
                 (thr[t].pc = "sum" /\ thr'[t].pc = "idle") =>
                     IF MathSum <= MAX
                     THEN thr'[t].ret = Ok(MathSum)
                     ELSE thr'[t].ret = Err(StakeOverflow)]_vars

\* A sum returned while another thread was between its membership check and
\* its insertion, which landed afterwards.
C17_Witness ==
    \E t, u \in Threads :
        /\ thr[t].pc = "idle"
        /\ thr[t].op = "total_stake"
        /\ thr[t].ret.tag = "Ok"
        /\ thr[t].ret.val > 0
        /\ thr[u].pc = "idle"
        /\ thr[u].op = "add_validator"
        /\ thr[u].ret = Ok(0)
        /\ MathSum > thr[t].ret.val

\* C18: whenever a thread is inside insert_peer or remove_peer, every idle
\* thread can make each of the ledger reads and every thread inside
\* total_stake can take its next step; and no step of insert_peer or
\* remove_peer takes the guard of committee or changes the ledger.
C18_PeerOpsLeaveLedgerFree ==
    /\ []((\E u \in Threads : thr[u].pc \in {"insert_reverse", "remove_reverse"}) =>
            \A t \in Threads :
                /\ thr[t].pc = "idle" =>
                       /\ ENABLED CommitteeSizeCall(t)
                       /\ \A address \in Idents :
                              /\ ENABLED IsCommitteeMemberCall(t, address)
                              /\ ENABLED GetStakeCall(t, address)
                       /\ ENABLED TotalStakeBegin(t)
                /\ thr[t].pc = "sum" => ENABLED (TotalStakeStep(t) \/ TotalStakeEnd(t)))
    /\ [][\A t \in Threads :
              (thr'[t] # thr[t] /\ thr'[t].op \in {"insert_peer", "remove_peer"}) =>
                  /\ committee' = committee
                  /\ thr'[t].pc # "sum"
                  /\ CommitteeFree' = CommitteeFree]_vars

\* A ledger read returned a registered stake while thread 1 holds the guard
\* of peer_addresses inside remove_peer.
C18_Witness ==
    /\ thr[1].pc = "remove_reverse"
    /\ \E t \in Threads :
           /\ thr[t].pc = "idle"
           /\ thr[t].op = "get_stake"
           /\ thr[t].ret = Val(1)

\* C19: with one call per thread and fair scheduling, every call that has
\* started returns, every thread gets its call through, and every guard that
\* is held (peer_addresses inside remove_peer, committee inside total_stake,
\* the permit of the sender cell) is released.
C19_EveryCallReturns ==
    /\ \A t \in Threads : (thr[t].pc # "idle") ~> (thr[t].pc = "idle")
    /\ \A t \in Threads : <>(thr[t].pc = "idle" /\ thr[t].op # "none")
    /\ (~PeerAddressesFree) ~> PeerAddressesFree
    /\ (~CommitteeFree) ~> CommitteeFree
    /\ (~SenderPermitFree) ~> SenderPermitFree

\* A remove_peer that went through the body of its if-let and an
\* insert_peer have both returned, with every thread done.
C19_Witness ==
    /\ \A t \in Threads : thr[t].pc = "idle" /\ thr[t].op # "none"
    /\ \E t, u \in Threads :
           /\ thr[t].op = "remove_peer"
           /\ thr[t].address # 0
           /\ thr[u].op = "insert_peer"

\* C20: on a ledger with exact total T that fits, the value a
\* quorum_threshold call returned and the value availability_threshold gives
\* on the same ledger add up to T + 1, and for T >= 1 the availability
\* threshold is at most the quorum threshold, which is at most T.
C20_ThresholdsComplementary ==
    \A t \in Threads :
        ( /\ thr[t].pc = "idle"
          /\ thr[t].op = "quorum_threshold"
          /\ thr[t].ret.tag = "Ok"
          /\ AllIdle )
        => \A order \in Orders(committee) :
               LET q == thr[t].ret.val
                   a == AvailabilityThreshold(committee, order).val
               IN  /\ q + a = MathSum + 1
                   /\ MathSum >= 1 => (a <= q /\ q <= MathSum)

====
